---- MODULE Spec2Model ----
(***************************************************************************)
(* Expense tracker (src/app.py, src/create_db.py): the users and expenses  *)
(* tables, the repository functions over them, and the Streamlit session    *)
(* controller of main().                                                    *)
(*                                                                          *)
(* SpecRepo drives the repository functions directly, with arbitrary        *)
(* arguments.  SpecUI drives main() through widget events of two browser    *)
(* tabs that share the database file.  SpecTab drives main() in one tab     *)
(* while anything else writes to the database file.                         *)
(***************************************************************************)
EXTENDS Integers, Sequences, FiniteSets, TLC

VARIABLES
    users,       \* users table: rows [username, password], insertion order
    expenses,    \* expenses table: rows in rowid order
    seq,         \* sqlite_sequence of expenses (AUTOINCREMENT): largest id ever given
    last,        \* the last repository call made directly: [op, args, hit, result];
                 \* hit: whether the key the call names was in its table
    raised,      \* the exception the last direct repository call ended with
    registered,  \* history: the <<username, password>> pairs add_userdata stored
    logged_in,   \* st.session_state['logged_in'], per tab
    username,    \* st.session_state['username'], per tab
    is_admin,    \* st.session_state['is_admin'], per tab
    edit_id,     \* st.session_state.edit_id, per tab (NoEdit: key absent)
    choice,      \* value of the sidebar "Menu" selectbox, per tab
    selected_id, \* value of the "Select Expense ID to Manage" selectbox, per tab
    form_open,   \* whether the last run rendered edit_form (and its Save button)
    pc,          \* position of the tab's script run: "idle" (the last run ended),
                 \* "run" (a run of Manage Records is due), "listed" (line 230 is
                 \* done), "raised@N" (the last run ended in an exception at line N)
    event,       \* the widget event the current run of Manage Records handles
    df,          \* the run's dataframe (line 230)
    snap,        \* history: the expenses table when df was read
    calls,       \* history: repository calls the tab's last script run made,
                 \* each with the session's username and is_admin at the call
    edit_by      \* history: the username of the session that set the tab's edit_id

vars == <<users, expenses, seq, last, raised, registered, logged_in, username,
          is_admin, edit_id, choice, selected_id, form_open, pc, event, df,
          snap, calls, edit_by>>

dbVars == <<users, expenses, seq>>
uiVars == <<logged_in, username, is_admin, edit_id, choice, selected_id,
            form_open, pc, event, df, snap, calls, edit_by>>

----------------------------------------------------------------------------
(* Bounds and input domains *)

MaxId == 2        \* rows ever inserted into the expenses table

SeedAdmin == "Itachibanker19"
SeedDemo == "demo"
AdminLiteral == "admin"

Usernames == {SeedAdmin, SeedDemo, AdminLiteral}
Passwords == {"Killer1980", "demo123", ""}

Sessions == {"tab1", "tab2"}

categories == <<"Food", "Transport", "Shopping", "Bills", "Entertainment", "Other">>

menu == <<"Add Expense", "Summary", "Manage Records">>

\* Values typed into the forms of main(): (date, category, amount, description)
UiInputs ==
    { [expense_date |-> "2024-02-01", category |-> categories[2], amount |-> 20, description |-> ""] }

\* Values passed to the repository functions called directly
ExpenseInputs ==
    UiInputs \cup
    { [expense_date |-> "2024-01-05", category |-> categories[1], amount |-> 10, description |-> "lunch"],
      [expense_date |-> "2024-01-05", category |-> categories[2], amount |-> 0, description |-> "lunch"] }

\* Python values that are not rows or strings of the tables
None == "None"
False == "False"
NoRow == [id |-> 0]
NoEdit == 0
NoExc == [type |-> "", line |-> 0]

Truthy(v) == v \notin {None, False, ""}

\* ids a caller may name: 0 is never a row's id
Ids == 0..MaxId

RowSet(t) == { t[i] : i \in DOMAIN t }
IdsOf(t) == { t[i].id : i \in DOMAIN t }

\* whether the expenses table holds a row with this id
HasRow(id) == id \in IdsOf(expenses)

----------------------------------------------------------------------------
(* Password hashing *)

\* hashlib.sha256(str.encode(password)).hexdigest() on the passwords of the model
make_hashes(password) ==
    CASE password = "Killer1980" -> "86f0094577d46f5ff7ea95f6bbc84c7746ed88cc522985732105601f0272d355"
      [] password = "demo123"    -> "d3ad9315b7be5dd53b31a273b3b3aba5defe700808305aa16a3062b76658a791"
      [] password = ""           -> "e3b0c44298fc1c149afbf4c8996fb92427ae41e4649b934ca495991b7852b855"

\* check_hashes without the comparison of digests
check_hashes_always(password, hashed_text) == hashed_text

check_hashes(password, hashed_text) ==
    IF make_hashes(password) = hashed_text THEN hashed_text ELSE False

----------------------------------------------------------------------------
(* Repository functions: reads *)

UserRows(u) == SelectSeq(users, LAMBDA r : r.username = u)

login_user(u, password) ==
    LET result == UserRows(u)
        hashed_pass == IF result = <<>> THEN None ELSE result[1].password
    IN  IF Truthy(hashed_pass) THEN check_hashes(password, hashed_pass) ELSE False

OwnColumns(r) ==
    [id |-> r.id, expense_date |-> r.expense_date, category |-> r.category,
     amount |-> r.amount, description |-> r.description]

\* view_all_expenses without the WHERE username = :user branch
view_all_expenses_unscoped(u, admin) == expenses

view_all_expenses(u, admin) ==
    IF admin
    THEN expenses
    ELSE LET own == SelectSeq(expenses, LAMBDA r : r.username = u)
         IN  [i \in 1..Len(own) |-> OwnColumns(own[i])]

get_expense_by_id(expense_id) ==
    LET result == SelectSeq(expenses, LAMBDA r : r.id = expense_id)
    IN  IF result = <<>> THEN NoRow ELSE result[1]

----------------------------------------------------------------------------
(* Repository functions: writes.  Each is the statement plus its commit. *)

\* add_userdata as INSERT OR REPLACE
add_userdata_replace(u, password) ==
    /\ users' = Append(SelectSeq(users, LAMBDA r : r.username # u),
                       [username |-> u, password |-> make_hashes(password)])
    /\ registered' = registered \cup {<<u, password>>}
    /\ raised' = NoExc

add_userdata(u, password) ==
    LET hashed_password == make_hashes(password) IN
    IF UserRows(u) # <<>>
    THEN \* username TEXT PRIMARY KEY: the INSERT fails, nothing is committed
         /\ raised' = [type |-> "IntegrityError", line |-> 30]
         /\ UNCHANGED <<users, registered>>
    ELSE /\ users' = Append(users, [username |-> u, password |-> hashed_password])
         /\ registered' = registered \cup {<<u, password>>}
         /\ raised' = NoExc

add_expense(u, date, category, amount, description) ==
    /\ seq' = seq + 1
    /\ expenses' = Append(expenses,
           [id |-> seq + 1, username |-> u, expense_date |-> date,
            category |-> category, amount |-> amount, description |-> description])

UpdatedRow(r, date, category, amount, description) ==
    [r EXCEPT !.expense_date = date, !.category = category,
              !.amount = amount, !.description = description]

\* edit_expense_data without its WHERE clause
edit_expense_data_all(expense_id, date, category, amount, description) ==
    expenses' = [i \in DOMAIN expenses |->
                    UpdatedRow(expenses[i], date, category, amount, description)]

edit_expense_data(expense_id, date, category, amount, description) ==
    expenses' = [i \in DOMAIN expenses |->
                    IF expenses[i].id = expense_id
                    THEN UpdatedRow(expenses[i], date, category, amount, description)
                    ELSE expenses[i]]

\* delete_data without its commit
delete_data_uncommitted(expense_id) ==
    expenses' = expenses

\* delete_data with WHERE id <= :id
delete_data_upto(expense_id) ==
    expenses' = SelectSeq(expenses, LAMBDA r : r.id > expense_id)

delete_data(expense_id) ==
    expenses' = SelectSeq(expenses, LAMBDA r : r.id # expense_id)

----------------------------------------------------------------------------
(* Initial state: create_db.py has run on an absent file; no tab has a session *)

create_db ==
    /\ users = << [username |-> SeedAdmin, password |-> make_hashes("Killer1980")],
                  [username |-> SeedDemo, password |-> make_hashes("demo123")] >>
    /\ expenses = <<>>
    /\ seq = 0

Init ==
    /\ create_db
    /\ last = [op |-> "", args |-> <<>>, hit |-> FALSE, result |-> None]
    /\ raised = NoExc
    /\ registered = {}
    /\ logged_in = [s \in Sessions |-> FALSE]
    /\ username = [s \in Sessions |-> ""]
    /\ is_admin = [s \in Sessions |-> FALSE]
    /\ edit_id = [s \in Sessions |-> NoEdit]
    /\ choice = [s \in Sessions |-> menu[1]]
    /\ selected_id = [s \in Sessions |-> 0]
    /\ form_open = [s \in Sessions |-> FALSE]
    /\ pc = [s \in Sessions |-> "idle"]
    /\ event = [s \in Sessions |-> "render"]
    /\ df = [s \in Sessions |-> <<>>]
    /\ snap = [s \in Sessions |-> <<>>]
    /\ calls = [s \in Sessions |-> {}]
    /\ edit_by = [s \in Sessions |-> ""]

----------------------------------------------------------------------------
(* SpecRepo: the repository functions called directly *)


CallAddUser(u, p) ==
    /\ add_userdata(u, p)
    /\ last' = [op |-> "add_userdata", args |-> <<u, p>>,
                hit |-> UserRows(u) # <<>>, result |-> None]
    /\ UNCHANGED <<expenses, seq>>
    /\ UNCHANGED uiVars

CallLogin(u, p) ==
    /\ last' = [op |-> "login_user", args |-> <<u, p>>,
                hit |-> UserRows(u) # <<>>, result |-> login_user(u, p)]
    /\ raised' = NoExc
    /\ UNCHANGED <<dbVars, registered>>
    /\ UNCHANGED uiVars

CallAddExpense(u, v) ==
    /\ seq < MaxId
    /\ add_expense(u, v.expense_date, v.category, v.amount, v.description)
    /\ last' = [op |-> "add_expense", args |-> <<u, v>>, hit |-> FALSE, result |-> None]
    /\ raised' = NoExc
    /\ UNCHANGED <<users, registered>>
    /\ UNCHANGED uiVars

CallView(u, admin) ==
    /\ last' = [op |-> "view_all_expenses", args |-> <<u, admin>>, hit |-> FALSE,
                result |-> view_all_expenses(u, admin)]
    /\ raised' = NoExc
    /\ UNCHANGED <<dbVars, registered>>
    /\ UNCHANGED uiVars

CallGet(id) ==
    /\ last' = [op |-> "get_expense_by_id", args |-> <<id>>, hit |-> HasRow(id),
                result |-> get_expense_by_id(id)]
    /\ raised' = NoExc
    /\ UNCHANGED <<dbVars, registered>>
    /\ UNCHANGED uiVars

CallEdit(id, v) ==
    /\ edit_expense_data(id, v.expense_date, v.category, v.amount, v.description)
    /\ last' = [op |-> "edit_expense_data", args |-> <<id, v>>,
                hit |-> HasRow(id), result |-> None]
    /\ raised' = NoExc
    /\ UNCHANGED <<users, seq, registered>>
    /\ UNCHANGED uiVars

CallDelete(id) ==
    /\ delete_data(id)
    /\ last' = [op |-> "delete_data", args |-> <<id>>, hit |-> HasRow(id), result |-> None]
    /\ raised' = NoExc
    /\ UNCHANGED <<users, seq, registered>>
    /\ UNCHANGED uiVars

NextRepo ==
    \/ \E u \in Usernames, p \in Passwords : CallAddUser(u, p)
    \/ \E u \in Usernames, p \in Passwords : CallLogin(u, p)
    \/ \E u \in Usernames, v \in ExpenseInputs : CallAddExpense(u, v)
    \/ \E u \in Usernames, admin \in BOOLEAN : CallView(u, admin)
    \/ \E id \in Ids : CallGet(id)
    \/ \E id \in Ids, v \in ExpenseInputs : CallEdit(id, v)
    \/ \E id \in Ids : CallDelete(id)

SpecRepo == Init /\ [][NextRepo]_vars

----------------------------------------------------------------------------
(* SpecUI: main(), one script run per widget event, two tabs on one database. *)
(* A run of the Manage Records page is two steps, the read of line 230 and   *)
(* the rest of the page, so that the other tab's statements fall between     *)
(* them; every other run makes at most one statement and is one step.        *)


\* positions at which the tab waits for a widget event
Waiting == {"idle", "raised@135", "raised@262"}

Call(s, fn, id) ==
    [fn |-> fn, id |-> id, username |-> username[s], is_admin |-> is_admin[s]]

\* Widgets that a run does not render lose their state
ManageWidgetsGone(s) ==
    /\ selected_id' = [selected_id EXCEPT ![s] = 0]
    /\ form_open' = [form_open EXCEPT ![s] = FALSE]

RunLocalsGone(s) ==
    /\ df' = [df EXCEPT ![s] = <<>>]
    /\ snap' = [snap EXCEPT ![s] = <<>>]
    /\ calls' = [calls EXCEPT ![s] = {}]
    /\ event' = [event EXCEPT ![s] = "render"]

\* lines 165-178: the Login button
Login(s, u, password) ==
    /\ pc[s] \in Waiting
    /\ ~logged_in[s]
    /\ IF Truthy(login_user(u, password))
       THEN /\ logged_in' = [logged_in EXCEPT ![s] = TRUE]
            /\ username' = [username EXCEPT ![s] = u]
            /\ is_admin' = [is_admin EXCEPT ![s] = IF u = AdminLiteral THEN TRUE ELSE @]
            \* st.rerun(): the page of the default menu entry
            /\ choice' = [choice EXCEPT ![s] = menu[1]]
       ELSE UNCHANGED <<logged_in, username, is_admin, choice>>
    /\ pc' = [pc EXCEPT ![s] = "idle"]
    /\ ManageWidgetsGone(s)
    /\ RunLocalsGone(s)
    /\ UNCHANGED <<dbVars, last, raised, registered, edit_id, edit_by>>

\* lines 184-188: the Logout button
Logout(s) ==
    /\ pc[s] \in Waiting
    /\ logged_in[s]
    /\ logged_in' = [logged_in EXCEPT ![s] = FALSE]
    /\ username' = [username EXCEPT ![s] = ""]
    /\ is_admin' = [is_admin EXCEPT ![s] = FALSE]
    \* st.rerun(): the login page
    /\ choice' = [choice EXCEPT ![s] = menu[1]]
    /\ pc' = [pc EXCEPT ![s] = "idle"]
    /\ ManageWidgetsGone(s)
    /\ RunLocalsGone(s)
    /\ UNCHANGED <<dbVars, last, raised, registered, edit_id, edit_by>>

\* lines 181-182: the sidebar menu; the run that follows renders the page chosen
Menu(s, c) ==
    /\ pc[s] \in Waiting
    /\ logged_in[s]
    /\ c # choice[s]
    /\ choice' = [choice EXCEPT ![s] = c]
    /\ pc' = [pc EXCEPT ![s] = IF c = menu[3] THEN "run" ELSE "idle"]
    /\ ManageWidgetsGone(s)
    /\ RunLocalsGone(s)
    /\ UNCHANGED <<dbVars, last, raised, registered, logged_in, username, is_admin,
                   edit_id, edit_by>>

\* lines 190-201: the Add Expense button
AddExpenseClick(s, v) ==
    /\ pc[s] \in Waiting
    /\ logged_in[s]
    /\ choice[s] = menu[1]
    /\ seq < MaxId
    /\ add_expense(username[s], v.expense_date, v.category, v.amount, v.description)
    /\ pc' = [pc EXCEPT ![s] = "idle"]
    /\ RunLocalsGone(s)
    /\ UNCHANGED <<users, last, raised, registered, logged_in, username, is_admin,
                   edit_id, edit_by, choice, selected_id, form_open>>

\* lines 228-230: a run of the Manage Records page starts, on a pending rerun
\* or on a widget event of the page as last rendered (pick: the id chosen in
\* the selectbox, 0 for none; an id that is no longer listed ends as no choice
\* does, on the first option), and reads the dataframe
ManageList(s, ev, pick) ==
    /\ logged_in[s]
    /\ choice[s] = menu[3]
    /\ pc[s] \in Waiting \cup {"run"}
    /\ pc[s] = "run" => (ev = "render" /\ pick = 0)
    /\ ev # "render" => pick = 0
    /\ ev \in {"Edit", "Delete"} => selected_id[s] # 0
    /\ ev = "Save" => form_open[s]
    /\ pick # 0 => /\ selected_id[s] # 0
                   /\ pick # selected_id[s]
                   /\ pick \in IdsOf(view_all_expenses(username[s], is_admin[s]))
    /\ selected_id' = [selected_id EXCEPT ![s] = IF pick # 0 THEN pick ELSE @]
    /\ event' = [event EXCEPT ![s] = ev]
    /\ df' = [df EXCEPT ![s] = view_all_expenses(username[s], is_admin[s])]
    /\ snap' = [snap EXCEPT ![s] = expenses]
    /\ calls' = [calls EXCEPT ![s] = {}]
    /\ pc' = [pc EXCEPT ![s] = "listed"]
    /\ UNCHANGED <<dbVars, last, raised, registered, logged_in, username, is_admin,
                   edit_id, edit_by, choice, form_open>>

\* line 246: the selectbox keeps its value while it is one of the options, and
\* shows the first option otherwise
Selected(s) ==
    IF \E i \in DOMAIN df[s] : df[s][i].id = selected_id[s]
    THEN selected_id[s]
    ELSE df[s][1].id

\* a button fires in the run if the run renders the button that was clicked
Clicked(s, ev) ==
    /\ event[s] = ev
    /\ Selected(s) = selected_id[s]

\* line 252
EditIdNow(s) ==
    IF Clicked(s, "Edit") THEN Selected(s) ELSE edit_id[s]

EditByNow(s) ==
    IF Clicked(s, "Edit") THEN username[s] ELSE edit_by[s]

\* the run ends: at next_pc, with the widgets it rendered and the calls it made
Finish(s, next_pc, sel, form, made) ==
    /\ pc' = [pc EXCEPT ![s] = next_pc]
    /\ event' = [event EXCEPT ![s] = "render"]
    /\ df' = [df EXCEPT ![s] = <<>>]
    /\ snap' = [snap EXCEPT ![s] = <<>>]
    /\ selected_id' = [selected_id EXCEPT ![s] = sel]
    /\ form_open' = [form_open EXCEPT ![s] = form]
    /\ calls' = [calls EXCEPT ![s] = made]

\* lines 232-273: the rest of the page.  v: the values in the edit form;
\* pdf_ok: whether export_to_pdf returns (line 135 reads colors.whitesoke from
\* the reportlab installation; where the name is missing the read raises
\* AttributeError and the run ends inside line 241, before the Edit and Delete
\* widgets)
ManageBody(s, v, pdf_ok) ==
    /\ pc[s] = "listed"
    /\ UNCHANGED <<users, seq, last, raised, registered, logged_in, username,
                   is_admin, choice>>
    /\ IF df[s] = <<>>
       THEN \* line 273
            /\ Finish(s, "idle", 0, FALSE, {})
            /\ UNCHANGED <<expenses, edit_id, edit_by>>
       ELSE IF ~pdf_ok
       THEN /\ Finish(s, "raised@135", 0, FALSE, {})
            /\ UNCHANGED <<expenses, edit_id, edit_by>>
       ELSE IF Clicked(s, "Delete")
       THEN \* lines 254-257
            /\ delete_data(Selected(s))
            /\ Finish(s, "run", Selected(s), FALSE,
                      {Call(s, "delete_data", Selected(s))})
            /\ UNCHANGED <<edit_id, edit_by>>
       ELSE IF EditIdNow(s) = NoEdit \/ EditIdNow(s) # Selected(s)
       THEN \* line 259 is false: no form
            /\ Finish(s, "idle", Selected(s), FALSE, {})
            /\ UNCHANGED <<expenses, edit_id, edit_by>>
       ELSE IF get_expense_by_id(Selected(s)) = NoRow
       THEN \* line 262 reads expense_to_edit.expense_date of None
            /\ Finish(s, "raised@262", Selected(s), FALSE,
                      {Call(s, "get_expense_by_id", Selected(s))})
            /\ edit_id' = [edit_id EXCEPT ![s] = EditIdNow(s)]
            /\ edit_by' = [edit_by EXCEPT ![s] = EditByNow(s)]
            /\ UNCHANGED expenses
       ELSE IF Clicked(s, "Save")
       THEN \* lines 267-271
            /\ edit_expense_data(Selected(s), v.expense_date, v.category,
                                 v.amount, v.description)
            /\ Finish(s, "run", Selected(s), FALSE,
                      {Call(s, "get_expense_by_id", Selected(s)),
                       Call(s, "edit_expense_data", Selected(s))})
            /\ edit_id' = [edit_id EXCEPT ![s] = NoEdit]
            /\ edit_by' = [edit_by EXCEPT ![s] = ""]
       ELSE \* the form is shown
            /\ Finish(s, "idle", Selected(s), TRUE,
                      {Call(s, "get_expense_by_id", Selected(s))})
            /\ edit_id' = [edit_id EXCEPT ![s] = EditIdNow(s)]
            /\ edit_by' = [edit_by EXCEPT ![s] = EditByNow(s)]
            /\ UNCHANGED expenses

\* main() has no widget that calls add_userdata: under SpecUI the users table
\* stays as create_db seeded it, and no session is admin.

NextUI ==
    \/ \E s \in Sessions, u \in Usernames, p \in Passwords : Login(s, u, p)
    \/ \E s \in Sessions : Logout(s)
    \/ \E s \in Sessions, i \in DOMAIN menu : Menu(s, menu[i])
    \/ \E s \in Sessions, v \in UiInputs : AddExpenseClick(s, v)
    \/ \E s \in Sessions, ev \in {"render", "Edit", "Delete", "Save"}, pick \in Ids :
           ManageList(s, ev, pick)
    \/ \E s \in Sessions, v \in UiInputs, pdf_ok \in BOOLEAN : ManageBody(s, v, pdf_ok)

SpecUI == Init /\ [][NextUI]_vars

----------------------------------------------------------------------------
(* SpecTab: main() in one tab, with every other user of the database file    *)
(* (other tabs, a signup page, a script) as statements of the repository     *)
(* functions that fall anywhere between the tab's steps.  The rows differ   *)
(* in id and owner; the form values are those of UiInputs.                   *)

Tab == "tab1"

OtherSignUp(u, password) ==
    /\ add_userdata(u, password)
    /\ UNCHANGED <<expenses, seq, last>>
    /\ UNCHANGED uiVars

OtherAddExpense(u, v) ==
    /\ seq < MaxId
    /\ add_expense(u, v.expense_date, v.category, v.amount, v.description)
    /\ UNCHANGED <<users, last, raised, registered>>
    /\ UNCHANGED uiVars

OtherEdit(id, v) ==
    /\ edit_expense_data(id, v.expense_date, v.category, v.amount, v.description)
    /\ UNCHANGED <<users, seq, last, raised, registered>>
    /\ UNCHANGED uiVars

OtherDelete(id) ==
    /\ delete_data(id)
    /\ UNCHANGED <<users, seq, last, raised, registered>>
    /\ UNCHANGED uiVars

NextTab ==
    \/ \E u \in Usernames, p \in Passwords : Login(Tab, u, p)
    \/ Logout(Tab)
    \/ \E i \in DOMAIN menu : Menu(Tab, menu[i])
    \/ \E v \in UiInputs : AddExpenseClick(Tab, v)
    \/ \E ev \in {"render", "Edit", "Delete", "Save"}, pick \in Ids :
           ManageList(Tab, ev, pick)
    \/ \E v \in UiInputs, pdf_ok \in BOOLEAN : ManageBody(Tab, v, pdf_ok)
    \/ \E u \in Usernames, p \in Passwords : OtherSignUp(u, p)
    \/ \E u \in Usernames, v \in UiInputs : OtherAddExpense(u, v)
    \/ \E id \in Ids, v \in UiInputs : OtherEdit(id, v)
    \/ \E id \in Ids : OtherDelete(id)

SpecTab == Init /\ [][NextTab]_vars

----------------------------------------------------------------------------
(* Claims settled under SpecRepo *)


\* C1: once add_userdata(u, p) has succeeded, login_user(u, p) returns a truthy
\* value and login_user(u, q) returns False for every q # p, in every later
\* state, whatever registrations, logins and expense operations came between;
\* the result of every login_user call made says the same.
C1_RegisteredLogin ==
    /\ \A pr \in registered :
          /\ Truthy(login_user(pr[1], pr[2]))
          /\ \A q \in Passwords \ {pr[2]} : login_user(pr[1], q) = False
    /\ last.op = "login_user" =>
          \A pr \in registered :
              pr[1] = last.args[1] =>
                  IF pr[2] = last.args[2] THEN Truthy(last.result)
                                          ELSE last.result = False

C1_Witness ==
    /\ last.op = "login_user"
    /\ <<last.args[1], last.args[2]>> \in registered
    /\ Truthy(last.result)
    /\ expenses # <<>>

\* C2: view_all_expenses(U, is_admin=False) returns exactly the stored rows whose
\* username is U (their id, date, category, amount and description, in table
\* order) and no row of another user; view_all_expenses(_, is_admin=True)
\* returns every row of every user.
C2_ListScoping ==
    \A U \in Usernames :
        LET own == view_all_expenses(U, FALSE)
            all == view_all_expenses(U, TRUE)
        IN  /\ IdsOf(own) = { r.id : r \in { x \in RowSet(expenses) : x.username = U } }
            /\ Len(own) = Cardinality(IdsOf(own))
            /\ \A j \in DOMAIN own :
                  \E r \in RowSet(expenses) :
                      /\ r.username = U
                      /\ own[j] = OwnColumns(r)
            /\ RowSet(all) = RowSet(expenses)
            /\ Len(all) = Len(expenses)

C2_Witness ==
    /\ last.op = "view_all_expenses"
    /\ last.args[2] = FALSE
    /\ last.result # <<>>
    /\ Len(last.result) < Len(expenses)

\* C4: a delete_data(id) step leaves get_expense_by_id(id) not-found and id out
\* of view_all_expenses for every user and for the admin, and leaves every row
\* with another id as it was.
C4_DeleteRemoves ==
    [][ \A id \in Ids : (last'.op = "delete_data" /\ last'.args[1] = id) =>
          /\ get_expense_by_id(id)' = NoRow
          /\ \A U \in Usernames, admin \in BOOLEAN :
                id \notin IdsOf(view_all_expenses(U, admin))'
          /\ \A r \in RowSet(expenses) : r.id # id => r \in RowSet(expenses')
          /\ RowSet(expenses') \subseteq RowSet(expenses)
          /\ Len(expenses') = Cardinality(RowSet(expenses')) ]_vars

C4_Witness ==
    /\ last.op = "delete_data"
    /\ last.hit
    /\ expenses # <<>>
    /\ get_expense_by_id(last.args[1]) = NoRow

C7_DuplicateSignup ==
    [][ \A u \in Usernames :
        (last'.op = "add_userdata" /\ last'.args[1] = u /\ last'.hit) =>
          LET stored == UserRows(u)[1].password
          IN  /\ raised'.type = "IntegrityError"
              /\ users' = users
              /\ \A p \in Passwords :
                    IF make_hashes(p) = stored
                    THEN Truthy(login_user(u, p)')
                    ELSE login_user(u, p)' = False ]_vars

C7_Witness ==
    /\ last.op = "add_userdata"
    /\ last.hit
    /\ raised.type = "IntegrityError"
    /\ make_hashes(last.args[2]) # UserRows(last.args[1])[1].password

\* C8: an edit_expense_data or delete_data step whose id is not in the expenses
\* table raises nothing and leaves the expenses and users tables as they were.
C8_MissingIdNoOp ==
    [][ (last'.op \in {"edit_expense_data", "delete_data"} /\ ~last'.hit) =>
          /\ raised' = NoExc
          /\ expenses' = expenses
          /\ seq' = seq
          /\ users' = users ]_vars

C8_Witness ==
    /\ last.op \in {"edit_expense_data", "delete_data"}
    /\ ~last.hit
    /\ last.args[1] \in 1..seq
    /\ expenses # <<>>

----------------------------------------------------------------------------
(* Claims settled under SpecUI and SpecTab *)

\* C3: a session logged in with the credentials of the privileged seeded
\* account has is_admin = True, and a session logged in as the demo account
\* has is_admin = False.
C3_SeededAdminIsAdmin ==
    \A s \in Sessions :
        logged_in[s] =>
            /\ username[s] = SeedAdmin => is_admin[s]
            /\ username[s] = SeedDemo => ~is_admin[s]

C9_OwnRowsOnly ==
    [][ \A s \in Sessions :
          (pc[s] = "listed" /\ pc'[s] # "listed") =>
              \A c \in calls'[s] :
                  ~c.is_admin =>
                      /\ c.username = username[s]
                      /\ \E r \in RowSet(snap[s]) :
                            /\ r.id = c.id
                            /\ r.username = c.username ]_vars

\* a session that is not admin has the edit form open, by a get_expense_by_id
\* call, on an edit_id that an admin session set before it in the same tab,
\* while the table also holds a row of another user
C9_Witness ==
    \E s \in Sessions :
        /\ logged_in[s]
        /\ ~is_admin[s]
        /\ form_open[s]
        /\ edit_by[s] = AdminLiteral
        /\ \E c \in calls[s] :
              c.fn = "get_expense_by_id" /\ c.id = edit_id[s] /\ c.username = username[s]
        /\ \E r \in RowSet(expenses) : r.username # username[s]

====
